---- MODULE Spec2Model ----
(***************************************************************************)
(* State-machine model of src/app.py: a Telegram webhook (Starlette) that  *)
(* relays text updates to a per-chat Gemini chat session and sends the     *)
(* reply back in chunks.                                                   *)
(*                                                                         *)
(* One update = one HTTP POST /webhook = one asyncio task.  The event loop *)
(* is single-threaded and cooperative, so one action of the model is the   *)
(* code that one task runs between two suspension points (await).  The     *)
(* only code that runs off the loop is chat_session.send_message, which    *)
(* asyncio.to_thread hands to a worker of the default executor.            *)
(***************************************************************************)
EXTENDS Integers, Sequences, FiniteSets, TLC

\* ---------------------------------------------------------------- bounds
MaxUpdates == 2        \* webhook requests in one behaviour
NumChats   == 2        \* distinct chat identifiers
MaxChunks  == 2        \* most chunks textwrap.wrap yields for one reply
MaxWorkers == 2        \* threads of the executor behind asyncio.to_thread
MaxLen     == 5        \* longest reply text handed to the chunker on its own
Width      == 3        \* width given to textwrap.wrap (4000 at line 108), scaled

TabSize == 8           \* tabsize of textwrap.wrap, left at its default

Upd   == 1..MaxUpdates
Chats == 1..NumChats

NoChat    == 0         \* a body that could not be decoded names no chat
Absent    == 0         \* 'gemini_session' not in context.chat_data
NoSession == 0         \* get_chat_session has not returned to this task

VARIABLES
    pc,            \* pc[u]: where the task of update u is suspended
    chat,          \* chat[u]: update.effective_chat.id
    kind,          \* kind[u]: which handler of lines 119-121 matches ("none": not arrived)
    resp,          \* resp[u]: HTTP status returned by webhook_route, 0 = none yet
    chat_data,     \* chat_data[c]: context.chat_data['gemini_session'] of chat c
    chat_session,  \* chat_session[u]: value get_chat_session returned to task u
    nctx,          \* number of chat objects client.chats.create has returned
    created,       \* created[c]: calls of client.chats.create made for chat c
    createFailed,  \* createFailed[c]: those of them that raised
    resetCtx,      \* resetCtx[c]: context registered by the latest /start or /reset
    result,        \* result[u]: outcome of chat_session.send_message
    chunks,        \* chunks[u]: len(chunks) of line 108 while the loop of line 109 runs
    idx,           \* idx[u]: position of the for loop of line 109
    errTries,      \* errTries[u]: times line 115 was reached
    outbox,        \* outbox[c]: messages delivered to chat c, in order of delivery
    failedBefore,  \* failedBefore[u]: updates of the chat of u whose backend call had
                   \* raised and whose handler had ended when u was dispatched
    creating,      \* update whose call of client.chats.create is executing on the
                   \* event loop, 0 = none
    pool,          \* max_workers of the executor behind asyncio.to_thread
    final_answer,  \* the reply text handed to textwrap.wrap (line 105)
    wrapped,       \* the list textwrap.wrap returned (line 108)
    wstate         \* "off" | "text" | "wrapped": progress of the chunker on its own

vars == << pc, chat, kind, resp, chat_data, chat_session, nctx, created,
           createFailed, resetCtx, result, chunks, idx, errTries, outbox, failedBefore,
           creating, pool, final_answer, wrapped, wstate >>

\* the chunker on its own: untouched by the handlers
wrapVars == << final_answer, wrapped, wstate >>

Kinds == {"text", "command", "other", "malformed"}

\* the handler of the update has ended: it returned, it raised, or the body
\* was rejected before any handler was chosen
Finished == {"returned", "raised", "rejected"}

\* the handlers' state after the module is loaded, with an executor of p
\* workers
InitHandlers(p) ==
    /\ pc = [u \in Upd |-> "idle"]
    /\ chat = [u \in Upd |-> NoChat]
    /\ kind = [u \in Upd |-> "none"]
    /\ resp = [u \in Upd |-> 0]
    /\ chat_data = [c \in Chats |-> Absent]
    /\ chat_session = [u \in Upd |-> NoSession]
    /\ nctx = 0
    /\ created = [c \in Chats |-> 0]
    /\ createFailed = [c \in Chats |-> 0]
    /\ resetCtx = [c \in Chats |-> 0]
    /\ result = [u \in Upd |-> "none"]
    /\ chunks = [u \in Upd |-> 0]
    /\ idx = [u \in Upd |-> 0]
    /\ errTries = [u \in Upd |-> 0]
    /\ outbox = [c \in Chats |-> << >>]
    /\ failedBefore = [u \in Upd |-> {}]
    /\ creating = 0
    /\ pool = p

\* the state after the module is loaded: no reply text yet
InitWith(p) ==
    /\ InitHandlers(p)
    /\ final_answer = << >>
    /\ wrapped = << >>
    /\ wstate = "off"

Init == InitWith(MaxWorkers)

\* the same service on an executor with one worker less, so that calls queue
InitSmallPool == InitWith(MaxWorkers - 1)

\* ------------------------------------------------------- the event loop
\* send_message called directly from the coroutine instead of via to_thread
OffloadedInline == FALSE

\* asyncio.to_thread (line 104) runs send_message on a worker thread, so a
\* running backend call does not occupy the event loop.
Offloaded == TRUE

\* The loop can run a task step unless a backend call is executing on it:
\* send_message if it were not offloaded, or client.chats.create (lines
\* 63-66), which get_chat_session calls synchronously.
LoopFree ==
    /\ \A u \in Upd : pc[u] = "running" => Offloaded
    /\ creating = 0

\* backend calls that occupy a worker thread
Busy == Cardinality({u \in Upd : pc[u] = "running"})

\* updates of chat c whose send_message raised and whose handler has ended
FailedSends(c) ==
    {v \in Upd : chat[v] = c /\ result[v] = "error" /\ pc[v] \in Finished}

Deliver(u, k, i) ==
    [outbox EXCEPT ![chat[u]] = Append(@, [upd |-> u, kind |-> k, idx |-> i])]

\* the handler started as a background task: webhook_route does not wait
AwaitedNoWait(p) == p # "json"

\* lines 155-158: `await application.process_update(...)` lets webhook_route
\* go on to its return only when the handler has ended.
Awaited(p) == p \in Finished

\* the except of line 159 answering "ok" as well
StatusAlwaysOk(p) == {200}

\* Statuses webhook_route can return when the handler is at p.  A rejected
\* body gives 500 (line 161), a handler that returned gives "ok" (line 158).
\* Whether an exception that left the handler also leaves process_update is
\* decided inside the telegram.ext library, not in this file: "ok" (the
\* library logged it) and 500 (it reached line 159) are both allowed.
Status(p) == IF p = "rejected" THEN {500}
             ELSE IF p = "raised" THEN {200, 500}
             ELSE {200}

\* The task of update u goes on to p; when that ends the handler, the rest
\* of webhook_route runs in the same step of the loop and returns the
\* response.
Goto(u, p) ==
    /\ pc' = [pc EXCEPT ![u] = p]
    /\ IF Awaited(p)
       THEN \E s \in Status(p) : resp' = [resp EXCEPT ![u] = s]
       ELSE UNCHANGED resp

\* ------------------------------------------------------ get_chat_session
\* the membership test of line 61 left out
NeedsCreateAlways(store, c) == TRUE

\* line 61: the session is created only when the key is missing
NeedsCreate(store, c) == store[c] = Absent

\* the key assigned before client.chats.create is known to have returned
get_chat_session_registers_first(u, store, ok, next) ==
    LET c == chat[u] IN
    IF NeedsCreate(store, c)
    THEN /\ created' = [created EXCEPT ![c] = @ + 1]
         /\ nctx' = nctx + 1
         /\ chat_data' = [store EXCEPT ![c] = nctx + 1]
         /\ IF ok
            THEN /\ chat_session' = [chat_session EXCEPT ![u] = nctx + 1]
                 /\ Goto(u, next)
                 /\ UNCHANGED createFailed
            ELSE /\ createFailed' = [createFailed EXCEPT ![c] = @ + 1]
                 /\ Goto(u, "raised")
                 /\ UNCHANGED chat_session
    ELSE /\ chat_data' = store
         /\ chat_session' = [chat_session EXCEPT ![u] = store[c]]
         /\ Goto(u, next)
         /\ UNCHANGED << nctx, created, createFailed >>

\* get_chat_session(chat_id, context), lines 57-69, on the store `store`
\* (start_or_reset calls it after its own del).  It runs without an await:
\* membership test, client.chats.create and the assignment are one step.
\* `ok` is whether client.chats.create returns; when it raises, line 67 is
\* not reached.  `next` is the pc of the caller after a normal return.
get_chat_session(u, store, ok, next) ==
    LET c == chat[u] IN
    IF NeedsCreate(store, c)
    THEN /\ created' = [created EXCEPT ![c] = @ + 1]
         /\ IF ok
            THEN /\ nctx' = nctx + 1
                 /\ chat_data' = [store EXCEPT ![c] = nctx + 1]
                 /\ chat_session' = [chat_session EXCEPT ![u] = nctx + 1]
                 /\ Goto(u, next)
                 /\ UNCHANGED createFailed
            ELSE /\ chat_data' = store
                 /\ createFailed' = [createFailed EXCEPT ![c] = @ + 1]
                 /\ Goto(u, "raised")
                 /\ UNCHANGED << nctx, chat_session >>
    ELSE /\ chat_data' = store
         /\ chat_session' = [chat_session EXCEPT ![u] = store[c]]
         /\ Goto(u, next)
         /\ UNCHANGED << nctx, created, createFailed >>

\* --------------------------------------------------------- webhook_route
\* Chat identifiers are opaque keys: they are numbered in the order in which
\* they first appear in an update.
KnownChats == {chat[v] : v \in Upd} \ {NoChat}
NewChat    == {c \in Chats : c = Cardinality(KnownChats) + 1}

\* A POST /webhook request arrives; webhook_route runs to `await
\* request.json()` (line 153).  Updates are numbered in order of arrival;
\* the body is malformed or decodes to an update of some kind for some chat.
webhook_route_post(u) ==
    /\ LoopFree
    /\ pc[u] = "idle"
    /\ \A v \in Upd : v < u => pc[v] # "idle"
    /\ \E k \in Kinds :
         /\ kind' = [kind EXCEPT ![u] = k]
         /\ \E c \in (IF k = "malformed" THEN {NoChat} ELSE KnownChats \cup NewChat) :
              chat' = [chat EXCEPT ![u] = c]
    /\ Goto(u, "json")
    /\ UNCHANGED << chat_data, chat_session, nctx, created, createFailed,
                    resetCtx, result, chunks, idx, errTries, outbox, failedBefore >>
    /\ UNCHANGED << creating, pool, wrapVars >>

\* lines 153-161 for a body that request.json() or Update.de_json rejects:
\* the exception is caught at line 159, no handler is called.
webhook_route_decode_error(u) ==
    /\ LoopFree
    /\ pc[u] = "json"
    /\ kind[u] = "malformed"
    /\ Goto(u, "rejected")
    /\ UNCHANGED << chat, kind, chat_data, chat_session, nctx, created,
                    createFailed, resetCtx, result, chunks, idx, errTries,
                    outbox, failedBefore >>
    /\ UNCHANGED << creating, pool, wrapVars >>

\* lines 155-157 for an update that matches none of the handlers of lines
\* 119-121: process_update returns without calling anything.
webhook_route_no_handler(u) ==
    /\ LoopFree
    /\ pc[u] = "json"
    /\ kind[u] = "other"
    /\ Goto(u, "returned")
    /\ failedBefore' = [failedBefore EXCEPT ![u] = FailedSends(chat[u])]
    /\ UNCHANGED << chat, kind, chat_data, chat_session, nctx, created,
                    createFailed, resetCtx, result, chunks, idx, errTries, outbox >>
    /\ UNCHANGED << creating, pool, wrapVars >>

\* ------------------------------------------------------- start_or_reset
\* the membership test of line 81 inverted
reset_inverted_test(store, c) ==
    IF store[c] = Absent THEN [store EXCEPT ![c] = Absent] ELSE store

\* the del of the whole store instead of the entry of the chat
reset_clears_all(store, c) == [d \in Chats |-> Absent]

\* lines 81-83: the entry of the chat is deleted if there is one
reset(store, c) ==
    IF store[c] # Absent THEN [store EXCEPT ![c] = Absent] ELSE store

\* start_or_reset without lines 81-83
start_or_reset_del_keeps_entry(u) ==
    /\ LoopFree /\ pc[u] = "json" /\ kind[u] = "command"
    /\ creating' = u
    /\ UNCHANGED << pc, chat, kind, resp, chat_data, chat_session, nctx, created, createFailed,
                    resetCtx, result, chunks, idx, errTries, outbox, failedBefore, pool, wrapVars >>

\* lines 76-85 and 61-63, up to the call of client.chats.create: the del of
\* lines 81-82, then get_chat_session finds no session and calls
\* client.chats.create, which executes on the event loop.
start_or_reset_del(u) ==
    /\ LoopFree
    /\ pc[u] = "json"
    /\ kind[u] = "command"
    /\ chat_data' = reset(chat_data, chat[u])
    /\ creating' = u
    /\ UNCHANGED << pc, chat, kind, resp, chat_session, nctx, created, createFailed,
                    resetCtx, result, chunks, idx, errTries, outbox, failedBefore,
                    pool, wrapVars >>

\* lines 63-87 up to the await of reply_text: client.chats.create returns
\* or raises, get_chat_session of line 85 ends, the greeting is requested.
start_or_reset(u) ==
    /\ pc[u] = "json"
    /\ kind[u] = "command"
    /\ creating = u
    /\ \E ok \in BOOLEAN :
         /\ get_chat_session(u, chat_data, ok, "greeting")
         /\ resetCtx' = IF ok THEN [resetCtx EXCEPT ![chat[u]] = nctx + 1] ELSE resetCtx
    /\ creating' = 0
    /\ UNCHANGED << chat, kind, result, chunks, idx, errTries, outbox, failedBefore,
                    pool, wrapVars >>

\* lines 87-90 resumed: the greeting was delivered, or reply_text raised
\* (nothing catches it in start_or_reset).
start_or_reset_reply(u) ==
    /\ LoopFree
    /\ pc[u] = "greeting"
    /\ \E ok \in BOOLEAN :
         IF ok
         THEN /\ outbox' = Deliver(u, "greeting", 0)
              /\ Goto(u, "returned")
         ELSE /\ Goto(u, "raised")
              /\ UNCHANGED outbox
    /\ UNCHANGED << chat, kind, chat_data, chat_session, nctx, created,
                    createFailed, resetCtx, result, chunks, idx, errTries, failedBefore >>
    /\ UNCHANGED << creating, pool, wrapVars >>

\* ------------------------------------------------------- handle_message
\* lines 92-97 and 61-63, up to the call of client.chats.create:
\* get_chat_session finds no session and calls client.chats.create, which
\* executes on the event loop.
handle_message_create(u) ==
    /\ LoopFree
    /\ pc[u] = "json"
    /\ kind[u] = "text"
    /\ NeedsCreate(chat_data, chat[u])
    /\ creating' = u
    /\ UNCHANGED << pc, chat, kind, resp, chat_data, chat_session, nctx, created,
                    createFailed, resetCtx, result, chunks, idx, errTries, outbox,
                    failedBefore, pool, wrapVars >>

\* lines 92-99 up to the await of send_action: get_chat_session of line 97
\* is outside the try of line 101.  It returns the registered session at
\* once, or ends the call of client.chats.create that is executing.
handle_message(u) ==
    /\ pc[u] = "json"
    /\ kind[u] = "text"
    /\ IF NeedsCreate(chat_data, chat[u]) THEN creating = u ELSE LoopFree
    /\ \E ok \in BOOLEAN : get_chat_session(u, chat_data, ok, "typing")
    /\ creating' = 0
    /\ failedBefore' = [failedBefore EXCEPT ![u] = FailedSends(chat[u])]
    /\ UNCHANGED << chat, kind, resetCtx, result, chunks, idx, errTries, outbox,
                    pool, wrapVars >>

\* line 99 resumed, then lines 101-104: send_action returned and the call
\* of send_message is handed to asyncio.to_thread, or send_action raised
\* (line 99 is outside the try).
handle_message_typing(u) ==
    /\ LoopFree
    /\ pc[u] = "typing"
    /\ \E ok \in BOOLEAN :
         Goto(u, IF ok THEN "to_thread" ELSE "raised")
    /\ UNCHANGED << chat, kind, chat_data, chat_session, nctx, created,
                    createFailed, resetCtx, result, chunks, idx, errTries,
                    outbox, failedBefore >>
    /\ UNCHANGED << creating, pool, wrapVars >>

\* an executor that starts a thread for every call handed to it
to_thread_start_unbounded(u) ==
    /\ pc[u] = "to_thread"
    /\ Goto(u, "running")
    /\ UNCHANGED << chat, kind, chat_data, chat_session, nctx, created,
                    createFailed, resetCtx, result, chunks, idx, errTries,
                    outbox, failedBefore >>
    /\ UNCHANGED << creating, pool, wrapVars >>

\* a free worker thread of the executor starts chat_session.send_message
to_thread_start(u) ==
    /\ pc[u] = "to_thread"
    /\ Busy < pool
    /\ Goto(u, "running")
    /\ UNCHANGED << chat, kind, chat_data, chat_session, nctx, created,
                    createFailed, resetCtx, result, chunks, idx, errTries,
                    outbox, failedBefore >>
    /\ UNCHANGED << creating, pool, wrapVars >>

\* chat_session.send_message returns a response or raises, on the worker;
\* the worker is free again.  The number of chunks of the reply is fixed
\* here (textwrap.wrap of an empty reply is the empty list).
send_message(u) ==
    /\ pc[u] = "running"
    /\ \/ /\ result' = [result EXCEPT ![u] = "error"]
          /\ UNCHANGED chunks
       \/ /\ result' = [result EXCEPT ![u] = "ok"]
          /\ \E n \in 0..MaxChunks : chunks' = [chunks EXCEPT ![u] = n]
    /\ Goto(u, "resolved")
    /\ UNCHANGED << chat, kind, chat_data, chat_session, nctx, created,
                    createFailed, resetCtx, idx, errTries, outbox, failedBefore >>
    /\ UNCHANGED << creating, pool, wrapVars >>

\* the except clause throwing the session of the chat away
handle_message_result_drops_session(u) ==
    /\ LoopFree
    /\ pc[u] = "resolved"
    /\ IF result[u] = "error"
       THEN /\ errTries' = [errTries EXCEPT ![u] = @ + 1]
            /\ chat_data' = [chat_data EXCEPT ![chat[u]] = Absent]
            /\ Goto(u, "error_reply")
            /\ UNCHANGED idx
       ELSE IF chunks[u] = 0
       THEN /\ Goto(u, "returned")
            /\ UNCHANGED << idx, errTries, chat_data >>
       ELSE /\ idx' = [idx EXCEPT ![u] = 1]
            /\ Goto(u, "replying")
            /\ UNCHANGED << errTries, chat_data >>
    /\ UNCHANGED << chat, kind, chat_session, nctx, created,
                    createFailed, resetCtx, result, chunks, outbox, failedBefore >>
    /\ UNCHANGED << creating, pool, wrapVars >>

\* line 104 resumed: lines 105-110 up to the first reply_text, or the
\* except of lines 112-115 up to its reply_text.
handle_message_result(u) ==
    /\ LoopFree
    /\ pc[u] = "resolved"
    /\ IF result[u] = "error"
       THEN /\ errTries' = [errTries EXCEPT ![u] = @ + 1]
            /\ Goto(u, "error_reply")
            /\ UNCHANGED idx
       ELSE IF chunks[u] = 0
       THEN /\ Goto(u, "returned")
            /\ UNCHANGED << idx, errTries >>
       ELSE /\ idx' = [idx EXCEPT ![u] = 1]
            /\ Goto(u, "replying")
            /\ UNCHANGED errTries
    /\ UNCHANGED << chat, kind, chat_data, chat_session, nctx, created,
                    createFailed, resetCtx, result, chunks, outbox, failedBefore >>
    /\ UNCHANGED << creating, pool, wrapVars >>

\* the try inside the loop: a chunk that cannot be delivered is skipped
handle_message_reply_continues(u) ==
    /\ LoopFree
    /\ pc[u] = "replying"
    /\ \E ok \in BOOLEAN :
         /\ IF ok THEN /\ outbox' = Deliver(u, "chunk", idx[u])
                       /\ UNCHANGED errTries
                  ELSE /\ errTries' = [errTries EXCEPT ![u] = 1]
                       /\ UNCHANGED outbox
         /\ IF idx[u] = chunks[u]
            THEN /\ Goto(u, IF errTries'[u] > 0 THEN "error_reply" ELSE "returned")
                 /\ idx' = [idx EXCEPT ![u] = 0]
                 /\ chunks' = [chunks EXCEPT ![u] = 0]
            ELSE /\ idx' = [idx EXCEPT ![u] = @ + 1]
                 /\ UNCHANGED << pc, resp, chunks >>
    /\ UNCHANGED << chat, kind, chat_data, chat_session, nctx, created,
                    createFailed, resetCtx, result, failedBefore >>
    /\ UNCHANGED << creating, pool, wrapVars >>

\* line 110 resumed: the chunk was delivered and the loop goes on, or
\* reply_text raised and the except of lines 112-115 takes over.  The loop
\* variables are dead once the loop is left.
handle_message_reply(u) ==
    /\ LoopFree
    /\ pc[u] = "replying"
    /\ \E ok \in BOOLEAN :
         IF ok
         THEN /\ outbox' = Deliver(u, "chunk", idx[u])
              /\ IF idx[u] = chunks[u]
                 THEN /\ Goto(u, "returned")
                      /\ idx' = [idx EXCEPT ![u] = 0]
                      /\ chunks' = [chunks EXCEPT ![u] = 0]
                 ELSE /\ idx' = [idx EXCEPT ![u] = @ + 1]
                      /\ UNCHANGED << pc, resp, chunks >>
              /\ UNCHANGED errTries
         ELSE /\ errTries' = [errTries EXCEPT ![u] = @ + 1]
              /\ Goto(u, "error_reply")
              /\ idx' = [idx EXCEPT ![u] = 0]
              /\ chunks' = [chunks EXCEPT ![u] = 0]
              /\ UNCHANGED outbox
    /\ UNCHANGED << chat, kind, chat_data, chat_session, nctx, created,
                    createFailed, resetCtx, result, failedBefore >>
    /\ UNCHANGED << creating, pool, wrapVars >>

\* line 115 resumed: the error reply was delivered, or reply_text raised
\* inside the except clause and the exception leaves handle_message.
handle_message_error_reply(u) ==
    /\ LoopFree
    /\ pc[u] = "error_reply"
    /\ \E ok \in BOOLEAN :
         IF ok
         THEN /\ outbox' = Deliver(u, "error", 0)
              /\ Goto(u, "returned")
         ELSE /\ Goto(u, "raised")
              /\ UNCHANGED outbox
    /\ UNCHANGED << chat, kind, chat_data, chat_session, nctx, created,
                    createFailed, resetCtx, result, chunks, idx, errTries, failedBefore >>
    /\ UNCHANGED << creating, pool, wrapVars >>

Next ==
    \E u \in Upd :
        \/ webhook_route_post(u)
        \/ webhook_route_decode_error(u)
        \/ webhook_route_no_handler(u)
        \/ start_or_reset_del(u)
        \/ start_or_reset(u)
        \/ start_or_reset_reply(u)
        \/ handle_message_create(u)
        \/ handle_message(u)
        \/ handle_message_typing(u)
        \/ to_thread_start(u)
        \/ send_message(u)
        \/ handle_message_result(u)
        \/ handle_message_reply(u)
        \/ handle_message_error_reply(u)

Spec == Init /\ [][Next]_vars

\* what the task of update u does when the event loop resumes it
Resume(u) ==
    \/ webhook_route_decode_error(u) \/ webhook_route_no_handler(u)
    \/ start_or_reset_del(u) \/ start_or_reset(u) \/ start_or_reset_reply(u)
    \/ handle_message_create(u) \/ handle_message(u) \/ handle_message_typing(u)
    \/ handle_message_result(u) \/ handle_message_reply(u)
    \/ handle_message_error_reply(u)

\* Scheduling: the event loop resumes every task that is ready (requests to
\* Telegram and client.chats.create end, by a response or an exception),
\* and the executor starts a queued call when a worker is free.  Nothing
\* makes chat_session.send_message return: line 104 sets no timeout.
Fairness ==
    \A u \in Upd : WF_vars(Resume(u)) /\ WF_vars(to_thread_start(u))

FairSpec == InitSmallPool /\ [][Next]_vars /\ Fairness

TypeOK ==
    /\ pc \in [Upd -> {"idle", "json", "greeting", "typing", "to_thread", "running",
                       "resolved", "replying", "error_reply"} \cup Finished]
    /\ chat \in [Upd -> Chats \cup {NoChat}]
    /\ kind \in [Upd -> Kinds \cup {"none"}]
    /\ resp \in [Upd -> {0, 200, 500}]
    /\ chat_data \in [Chats -> 0..MaxUpdates]
    /\ chat_session \in [Upd -> 0..MaxUpdates]
    /\ nctx \in 0..MaxUpdates
    /\ Busy <= pool
    /\ creating \in 0..MaxUpdates
    /\ pool \in 1..MaxWorkers

\* ======================================================================
\* textwrap.wrap(final_answer, 4000, replace_whitespace=False), line 108
\* ======================================================================
\* A text is a sequence of characters.  The alphabet has a letter and the
\* whitespace characters a reply can hold; it has no hyphen, so a word is a
\* maximal run of characters that are not whitespace.
Alphabet == {"a", " ", "\n", "\t"}
Texts    == UNION {[1..n -> Alphabet] : n \in 0..MaxLen}

\* str.isspace for one character
IsSpace(ch) == ch \in {" ", "\n", "\t"}

\* chunk.strip() == ''
AllSpace(s) == \A k \in DOMAIN s : IsSpace(s[k])

\* ''.join(cur_line)
RECURSIVE Join(_)
Join(ss) == IF ss = << >> THEN << >> ELSE Head(ss) \o Join(Tail(ss))

\* text.expandtabs(tabsize) of _munge_whitespace (expand_tabs is left True):
\* a tab becomes the spaces up to the next tab stop, the column starts
\* again after a newline.  replace_whitespace=False keeps the newlines.
RECURSIVE ExpandFrom(_, _, _)
ExpandFrom(t, i, col) ==
    IF i > Len(t) THEN << >>
    ELSE IF t[i] = "\t"
         THEN LET n == TabSize - (col % TabSize)
              IN  [k \in 1..n |-> " "] \o ExpandFrom(t, i + 1, col + n)
         ELSE IF t[i] = "\n"
              THEN << t[i] >> \o ExpandFrom(t, i + 1, 0)
              ELSE << t[i] >> \o ExpandFrom(t, i + 1, col + 1)

expandtabs(t) == ExpandFrom(t, 1, 0)

\* _split: the text cut into maximal runs of whitespace and words
RunEnd(t, i) ==
    CHOOSE j \in i..Len(t) :
        /\ \A k \in i..j : IsSpace(t[k]) = IsSpace(t[i])
        /\ j = Len(t) \/ IsSpace(t[j + 1]) # IsSpace(t[i])

RECURSIVE SplitFrom(_, _)
SplitFrom(t, i) ==
    IF i > Len(t) THEN << >>
    ELSE LET j == RunEnd(t, i)
         IN  << SubSeq(t, i, j) >> \o SplitFrom(t, j + 1)

split(t) == SplitFrom(t, 1)

\* the inner loop of _wrap_chunks: chunks are moved to the current line
\* while they fit
RECURSIVE Fill(_, _, _)
Fill(chs, cur_line, cur_len) ==
    IF chs # << >> /\ cur_len + Len(Head(chs)) <= Width
    THEN Fill(Tail(chs), Append(cur_line, Head(chs)), cur_len + Len(Head(chs)))
    ELSE [cur_line |-> cur_line, chunks |-> chs]

\* break_long_words=False: a chunk too long for any line is put on a line
\* of its own, uncut
handle_long_word_unbroken(chs, cur_line, cur_len) ==
    IF cur_line = << >>
    THEN [cur_line |-> << Head(chs) >>, chunks |-> Tail(chs)]
    ELSE [cur_line |-> cur_line, chunks |-> chs]

\* _handle_long_word with break_long_words left True: the chunk is cut to
\* the room left on the line, the rest stays first in the chunk list
handle_long_word(chs, cur_line, cur_len) ==
    LET space_left == IF Width < 1 THEN 1 ELSE Width - cur_len
        chunk      == Head(chs)
    IN  [cur_line |-> Append(cur_line, SubSeq(chunk, 1, space_left)),
         chunks   |-> << SubSeq(chunk, space_left + 1, Len(chunk)) >> \o Tail(chs)]

\* _wrap_chunks with drop_whitespace left True and no indent: a whitespace
\* chunk that would start a line is dropped unless no line exists yet, the
\* line is filled, a chunk longer than the width is cut, a whitespace chunk
\* that ends the line is dropped, and the line is kept if anything is left.
RECURSIVE wrap_chunks(_, _)
wrap_chunks(chs, lines) ==
    IF chs = << >> THEN lines
    ELSE LET c0 == IF AllSpace(Head(chs)) /\ lines # << >> THEN Tail(chs) ELSE chs
             f  == Fill(c0, << >>, 0)
             h  == IF f.chunks # << >> /\ Len(Head(f.chunks)) > Width
                   THEN handle_long_word(f.chunks, f.cur_line, Len(Join(f.cur_line)))
                   ELSE f
             n  == Len(h.cur_line)
             cur_line == IF n > 0 /\ AllSpace(h.cur_line[n])
                         THEN SubSeq(h.cur_line, 1, n - 1) ELSE h.cur_line
         IN  wrap_chunks(h.chunks,
                         IF cur_line # << >> THEN Append(lines, Join(cur_line))
                         ELSE lines)

\* textwrap.wrap(text, width, replace_whitespace=False)
textwrap_wrap(text) == wrap_chunks(split(expandtabs(text)), << >>)

\* line 108 on its own: the chunker is applied to one reply text
handle_message_wrap ==
    /\ wstate = "text"
    /\ wrapped' = textwrap_wrap(final_answer)
    /\ wstate' = "wrapped"
    /\ UNCHANGED << pc, chat, kind, resp, chat_data, chat_session, nctx, created,
                    createFailed, resetCtx, result, chunks, idx, errTries, outbox,
                    failedBefore, creating, pool, final_answer >>

\* response.text of line 105 can be any text
InitWrap ==
    /\ InitHandlers(MaxWorkers)
    /\ final_answer \in Texts
    /\ wrapped = << >>
    /\ wstate = "text"

NextWrap == handle_message_wrap

WrapSpec == InitWrap /\ [][NextWrap]_vars

\* ======================================================================
\* Properties
\* ======================================================================
\* messages of kind k that update u has had delivered to its chat
Delivered(u, k) ==
    IF chat[u] = NoChat THEN {}
    ELSE {i \in DOMAIN outbox[chat[u]] :
            outbox[chat[u]][i].upd = u /\ outbox[chat[u]][i].kind = k}

\* calls of client.chats.create for chat c that returned a session
CreatedOk(c) == created[c] - createFailed[c]

\* update u holds a session that get_chat_session returned to it
Holds(u) == chat_session[u] # NoSession

\* ---------------------------------------------------------------- C1
\* C1 as stated: while the first updates of a chat, text or command, are
\* all still being handled, at most one session has been created for the
\* chat and every handler that obtained a session obtained the registered
\* one.
C1_SingleCreationAnyHandler ==
    \A c \in Chats :
        (\A u \in Upd : chat[u] = c => pc[u] \notin Finished) =>
            /\ CreatedOk(c) <= 1
            /\ \A u \in Upd : chat[u] = c /\ Holds(u) => chat_session[u] = chat_data[c]

\* C1 amended: for a chat that receives only text updates (no /start or
\* /reset), however its handle_message tasks interleave, at most one call
\* of client.chats.create returns a session (exactly one as soon as a
\* session is registered or held, and a call is repeated only after a call
\* that raised), and every handler that obtained a session holds the one
\* registered in the store.
C1_SingleCreation ==
    \A c \in Chats :
        (\A u \in Upd : chat[u] = c => kind[u] # "command") =>
            /\ CreatedOk(c) <= 1
            /\ created[c] <= createFailed[c] + 1
            /\ chat_data[c] # Absent => CreatedOk(c) = 1
            /\ \A u \in Upd : chat[u] = c /\ Holds(u) =>
                   /\ chat_session[u] = chat_data[c]
                   /\ CreatedOk(c) = 1

\* two first text updates of one chat are in flight at once and hold the
\* same session, created by a single call
C1_Witness ==
    \E u, v \in Upd :
        /\ u # v /\ chat[u] = chat[v] /\ chat[u] # NoChat
        /\ kind[u] = "text" /\ kind[v] = "text"
        /\ pc[u] = "typing" /\ pc[v] = "typing"
        /\ Holds(u) /\ chat_session[u] = chat_session[v]
        /\ created[chat[u]] = 1

\* ---------------------------------------------------------------- C2
\* C2: whenever handle_message hands send_message to the offload, the
\* session it is called on is the one registered by the latest /start or
\* /reset of the chat, or a later one (sessions are numbered in order of
\* creation).
C2_ResetClearsMemory ==
    [][\A u \in Upd :
          (pc[u] = "typing" /\ pc'[u] = "to_thread") =>
              chat_session[u] >= resetCtx[chat[u]]]_vars

\* ---------------------------------------------------------------- C3
\* C3: in the messages delivered to a chat, the chunks of one update appear
\* in the order of the loop, and no chunk of a later update lies between
\* two chunks of an earlier update.
C3_SegmentOrdering ==
    \A c \in Chats :
        LET s == outbox[c] IN
        \A i, k \in DOMAIN s :
            (i < k /\ s[i].kind = "chunk" /\ s[k].kind = "chunk" /\ s[i].upd = s[k].upd) =>
                /\ s[i].idx < s[k].idx
                /\ \A j \in DOMAIN s :
                       (i < j /\ j < k /\ s[j].kind = "chunk") => s[j].upd <= s[i].upd

\* ---------------------------------------------------------------- C4
\* C4: when send_message has raised for a text update u, the steps of u
\* that follow reach line 115 once, deliver no chunk and, when reply_text
\* returns, exactly one error reply; they leave the store, the sessions and
\* the creation counts as they are.  A text update dispatched while a
\* session is registered for its chat is given that session, without a
\* creation call and without a change of the store.
C4_IsolationUnderFailure ==
    [][/\ \A u \in Upd :
             (result[u] = "error" /\ pc'[u] # pc[u]) =>
                 /\ chat_data' = chat_data
                 /\ created' = created /\ nctx' = nctx
                 /\ errTries'[u] = 1
                 /\ Delivered(u, "chunk")' = {}
                 /\ pc[u] = "resolved" => pc'[u] = "error_reply" /\ outbox' = outbox
                 /\ pc'[u] = "returned" => Cardinality(Delivered(u, "error")') = 1
       /\ \A v \in Upd :
             (pc[v] = "json" /\ kind[v] = "text" /\ pc'[v] # "json"
                  /\ chat_data[chat[v]] # Absent) =>
                 /\ chat_session'[v] = chat_data[chat[v]]
                 /\ chat_data' = chat_data
                 /\ created' = created]_vars

\* the backend call of u raised and u sent its single error reply; a text
\* update v dispatched after that has had its call started on the one
\* session ever created for the chat
C4_Witness ==
    \E u, v \in Upd :
        /\ chat[u] = chat[v] /\ u \in failedBefore[v]
        /\ pc[u] = "returned" /\ Cardinality(Delivered(u, "error")) = 1
        /\ pc[v] = "running"
        /\ chat_session[v] = chat_session[u] /\ chat_session[v] = chat_data[chat[v]]
        /\ created[chat[v]] = 1

\* ---------------------------------------------------------------- C5
\* C5: an update whose handler ended because client.chats.create raised in
\* get_chat_session has had an error reply delivered to its chat.
C5_CreationErrorReported ==
    \A u \in Upd :
        (pc[u] = "raised" /\ kind[u] \in {"text", "command"} /\ ~Holds(u)) =>
            Delivered(u, "error") # {}

\* ---------------------------------------------------------------- C6
\* C6: the step in which client.chats.create raises for an update of chat c
\* leaves c without a registered session (the entry a /start or /reset
\* deleted in the same step stays deleted) and the other chats untouched;
\* and every text or command update dispatched while c has no registered
\* session calls client.chats.create.
C6_NoPartialRegistration ==
    [][\A u \in Upd :
          /\ (pc[u] = "json" /\ pc'[u] = "raised") =>
                 /\ chat_data'[chat[u]] = Absent
                 /\ \A d \in Chats : d # chat[u] => chat_data'[d] = chat_data[d]
                 /\ nctx' = nctx
          /\ (pc[u] = "json" /\ kind[u] \in {"text", "command"} /\ pc'[u] # "json"
                  /\ chat_data[chat[u]] = Absent) =>
                 created'[chat[u]] = created[chat[u]] + 1]_vars

\* a /start or /reset deleted the registered session of its chat and its
\* creation call raised: the chat is left without a session
C6_Witness ==
    \E u, v \in Upd :
        /\ chat[u] = chat[v] /\ u # v
        /\ Holds(u)
        /\ kind[v] = "command" /\ pc[v] = "raised" /\ ~Holds(v)
        /\ chat_data[chat[v]] = Absent
        /\ created[chat[v]] = 2 /\ createFailed[chat[v]] = 1

\* ---------------------------------------------------------------- C7
\* the next step of the task of update b
TaskStep(b) ==
    \/ webhook_route_post(b)
    \/ webhook_route_no_handler(b) \/ webhook_route_decode_error(b)
    \/ start_or_reset_del(b) \/ start_or_reset(b) \/ start_or_reset_reply(b)
    \/ handle_message_create(b) \/ handle_message(b) \/ handle_message_typing(b)
    \/ handle_message_result(b) \/ handle_message_reply(b)
    \/ handle_message_error_reply(b)

\* C7: while send_message of an update of chat A is running, every update
\* of another chat can take its next step: the next request is accepted, a
\* suspended task is resumed, a call handed to the offload starts as long
\* as a worker is free, and a running call can complete.  (The loop is
\* looked at between two calls of client.chats.create, which hold it
\* whatever A's call does.)
C7_CrossChatConcurrency ==
    \A a, b \in Upd :
        (pc[a] = "running" /\ chat[b] # chat[a] /\ creating \in {0, b}) =>
            /\ (pc[b] = "idle" /\ \A v \in Upd : v < b => pc[v] # "idle")
                   => ENABLED webhook_route_post(b)
            /\ pc[b] \in {"json", "greeting", "typing", "resolved", "replying", "error_reply"}
                   => ENABLED TaskStep(b)
            /\ (pc[b] = "to_thread" /\ Busy < pool) => ENABLED to_thread_start(b)
            /\ pc[b] = "running" => ENABLED send_message(b)

\* a text update of chat B that arrived after the one of chat A has had its
\* reply delivered and its request answered while A's call is still running
C7_Witness ==
    \E a, b \in Upd :
        /\ a < b /\ chat[a] # chat[b]
        /\ pc[a] = "running"
        /\ kind[b] = "text" /\ result[b] = "ok" /\ pc[b] = "returned"
        /\ Cardinality(Delivered(b, "chunk")) = MaxChunks
        /\ resp[b] = 200

\* ---------------------------------------------------------------- C8
\* C8: the step that handles a body that cannot be decoded answers 500 and
\* changes neither the store, the sessions, the creation counts nor any
\* outbox; such an update never reaches a handler.
C8_DecodeError ==
    [][\A u \in Upd :
          (kind[u] = "malformed" /\ pc'[u] # pc[u] /\ pc[u] # "idle") =>
              /\ pc[u] = "json" /\ pc'[u] = "rejected"
              /\ resp'[u] = 500
              /\ outbox' = outbox
              /\ chat_data' = chat_data
              /\ chat_session' = chat_session
              /\ created' = created /\ nctx' = nctx
              /\ result' = result /\ errTries' = errTries]_vars

\* a malformed body was answered 500 while a session is registered
C8_Witness ==
    \E u \in Upd :
        /\ kind[u] = "malformed" /\ pc[u] = "rejected" /\ resp[u] = 500
        /\ \E c \in Chats : chat_data[c] # Absent

\* ---------------------------------------------------------------- C9
\* C9: a decoded update whose handling has ended is answered "ok" 200, and
\* if a failure occurred in its handling (the except of line 112 was
\* entered or an exception left the handler) an error reply was delivered
\* to its chat.
C9_FailuresRecovered ==
    \A u \in Upd :
        (pc[u] \in {"returned", "raised"}) =>
            /\ resp[u] = 200
            /\ (pc[u] = "raised" \/ errTries[u] > 0) => Delivered(u, "error") # {}

\* --------------------------------------------------------------- C10
\* C10: a request has a response only when the handling of its update has
\* ended (every send of the update is over, or the handler has raised).
C10_AckAfterWork ==
    \A u \in Upd : resp[u] # 0 => pc[u] \in Finished

\* a text update was answered after both chunks of its reply were delivered
C10_Witness ==
    \E u \in Upd :
        /\ resp[u] = 200 /\ kind[u] = "text"
        /\ Cardinality(Delivered(u, "chunk")) = MaxChunks

\* --------------------------------------------------------------- C11
\* C11: a text update whose send_message is running is eventually answered
\* (the offload expires, the error reply is sent, the request is
\* acknowledged), even if send_message never returns.
C11_BoundedBackendCall ==
    \A u \in Upd : (pc[u] = "running") ~> (resp[u] # 0)

\* --------------------------------------------------------------- C15
\* C15: while get_chat_session for an update of chat A is in progress, its
\* client.chats.create included, an update of another chat B that is ready
\* to be dispatched can take its step (its own store operations).
C15_StoreOpsDoNotBlock ==
    \A a, b \in Upd :
        (creating = a /\ chat[b] # chat[a] /\ pc[b] = "json"
           /\ kind[b] \in {"command", "text"}) => ENABLED TaskStep(b)

\* --------------------------------------------------------------- C16
\* the update whose step this is, as far as the store is concerned
Acts(u) == pc'[u] # pc[u] \/ (creating # u /\ creating' = u)

\* C16: the removal step of start_or_reset (lines 80-83) leaves the chat
\* without an entry, whether it had one or not; on a chat without an entry
\* it changes nothing; it raises nothing; removing again changes nothing
\* more; and it creates no context and touches no other chat.
C16_ResetIdempotent ==
    [][\A u \in Upd :
          (kind[u] = "command" /\ creating # u /\ creating' = u) =>
              LET c == chat[u] IN
              /\ chat_data'[c] = Absent
              /\ \A d \in Chats \ {c} : chat_data'[d] = chat_data[d]
              /\ chat_data[c] = Absent => chat_data' = chat_data
              /\ reset(chat_data', c) = chat_data'
              /\ reset(reset(chat_data, c), c) = reset(chat_data, c)
              /\ pc' = pc /\ resp' = resp
              /\ created' = created /\ nctx' = nctx /\ createFailed' = createFailed
              /\ chat_session' = chat_session]_vars

\* a command has just removed the entry that an earlier update of the chat
\* had registered and still holds
C16_Witness ==
    \E u, v \in Upd :
        /\ u # v /\ chat[u] = chat[v]
        /\ kind[u] = "command" /\ creating = u
        /\ Holds(v) /\ chat_data[chat[u]] = Absent

\* --------------------------------------------------------------- C17
\* a step in which only worker threads of the executor move: calls of
\* send_message start or end, no task of the event loop runs, and store,
\* sessions and outboxes stay as they are
OnlyWorkers ==
    /\ \A v \in Upd : pc'[v] # pc[v] =>
          \/ pc[v] = "to_thread" /\ pc'[v] = "running"
          \/ pc[v] = "running" /\ pc'[v] = "resolved"
    /\ UNCHANGED << chat, kind, resp, chat_data, chat_session, nctx, created,
                    createFailed, resetCtx, outbox, creating >>

\* C17 as stated: the removal, then in the very next step of the loop
\* exactly one call of client.chats.create that registers a context no
\* update has held before, then the greeting; and the chat is ACTIVE when
\* the handler ends.
C17_ControlCommandSequenceAsStated ==
    [][\A u \in Upd :
          kind[u] = "command" =>
              LET c == chat[u] IN
              /\ (creating # u /\ creating' = u) => chat_data'[c] = Absent
              /\ (creating = u /\ ~OnlyWorkers) =>
                    /\ creating' = 0
                    /\ created'[c] = created[c] + 1
                    /\ chat_data'[c] # Absent
                    /\ chat_data'[c] \notin {chat_session[v] : v \in Upd}
              /\ Delivered(u, "greeting")' # Delivered(u, "greeting") => Holds(u)
              /\ (pc[u] \notin Finished /\ pc'[u] \in Finished) =>
                    chat_data'[c] # Absent]_vars

\* C17 amended: the removal, then in the very next step of the loop (worker
\* threads may start or end calls of send_message meanwhile) exactly one
\* call of client.chats.create; when the call returns, a context that no
\* update has held before is registered for the chat and handed to the
\* handler, and only after that is the greeting sent; when the call raises,
\* the chat is left ABSENT, no greeting is sent and the handler has ended.
C17_ControlCommandSequence ==
    [][\A u \in Upd :
          kind[u] = "command" =>
              LET c == chat[u] IN
              /\ (creating # u /\ creating' = u) =>
                    /\ pc[u] = "json"
                    /\ chat_data' = [chat_data EXCEPT ![c] = Absent]
                    /\ created' = created /\ nctx' = nctx /\ outbox' = outbox
              /\ (creating = u /\ ~OnlyWorkers) =>
                    /\ creating' = 0
                    /\ created'[c] = created[c] + 1
                    /\ \A d \in Chats \ {c} : created'[d] = created[d]
                    /\ outbox' = outbox
                    /\ pc'[u] \in {"greeting", "raised"}
                    /\ IF pc'[u] = "greeting"
                       THEN /\ chat_data'[c] # Absent
                            /\ chat_data'[c] = chat_session'[u]
                            /\ chat_data'[c] \notin {chat_session[v] : v \in Upd}
                       ELSE /\ chat_data'[c] = Absent
                            /\ chat_session'[u] = NoSession
              /\ (outbox' # outbox /\ Delivered(u, "greeting")' # Delivered(u, "greeting")) =>
                    /\ pc[u] = "greeting" /\ Holds(u) /\ creating = 0
                    /\ Delivered(u, "greeting") = {}
              /\ pc[u] = "json" => pc'[u] \in {"json", "greeting", "raised"}
              /\ (pc'[u] = "greeting" /\ pc[u] # "greeting") =>
                    Delivered(u, "greeting")' = {}]_vars

\* a command replaced the context another update of the chat holds by a
\* new one, and its greeting was delivered after that
C17_Witness ==
    \E u, v \in Upd :
        /\ u # v /\ chat[u] = chat[v] /\ kind[u] = "command"
        /\ Holds(v) /\ Holds(u) /\ chat_session[v] < chat_session[u]
        /\ chat_data[chat[u]] = chat_session[u]
        /\ Delivered(u, "greeting") # {} /\ pc[u] = "returned"

\* --------------------------------------------------------------- C19
\* C19: the entry of a chat changes only in a dispatch step of an update of
\* that chat; and when that update is a text message, the chat had no
\* entry and gets the session handed to the handler.
C19_ChatIsolation ==
    [][\A d \in Chats :
          chat_data'[d] # chat_data[d] =>
              \E u \in Upd :
                  /\ chat[u] = d /\ pc[u] = "json" /\ Acts(u)
                  /\ kind[u] \in {"command", "text"}
                  /\ kind[u] = "text" =>
                        /\ chat_data[d] = Absent
                        /\ chat_data'[d] = chat_session'[u]]_vars

\* a command of one chat was handled to its end after another chat had been
\* registered, and that chat still has the session its update holds
C19_Witness ==
    \E u, v \in Upd :
        /\ chat[u] # chat[v] /\ kind[v] = "command" /\ pc[v] \in Finished
        /\ Holds(u) /\ chat_data[chat[u]] = chat_session[u]
        /\ Holds(v) /\ chat_session[u] < chat_session[v]

\* --------------------------------------------------------------- C20
\* C20: the except clause of handle_message is entered at most once per
\* update; a chunk is delivered only for an update that has not entered it
\* (send_message did not raise, no earlier chunk failed) and that has had no
\* error reply delivered; an error reply is delivered only once the clause
\* was entered, and only one per update.
C20_ErrorReplyLastAndSingle ==
    [][/\ \A u \in Upd : errTries'[u] <= 1
       /\ \A c \in Chats :
             outbox'[c] # outbox[c] =>
                 LET e == outbox'[c][Len(outbox'[c])]
                     NoErrorYet == \A i \in DOMAIN outbox[c] :
                                      ~(outbox[c][i].upd = e.upd /\ outbox[c][i].kind = "error")
                 IN  /\ outbox'[c] = Append(outbox[c], e)
                     /\ e.kind = "chunk" => errTries[e.upd] = 0 /\ NoErrorYet
                     /\ e.kind = "error" => errTries'[e.upd] = 1 /\ NoErrorYet]_vars

\* the first chunk of a two-chunk reply was delivered, the second was not,
\* and the error reply closed the handler
C20_Witness ==
    \E u \in Upd :
        /\ result[u] = "ok" /\ pc[u] = "returned" /\ errTries[u] = 1
        /\ Cardinality(Delivered(u, "chunk")) = 1
        /\ Cardinality(Delivered(u, "error")) = 1

\* --------------------------------------------------------------- C18
\* C18: a running send_message never holds the event loop; no more calls
\* run at a time than the executor has workers; a call handed to the
\* executor stays queued, with its request unanswered and nothing sent for
\* it, until a worker that is free takes it; and it can stay queued for
\* ever only if from some time on all workers are busy for ever.
C18_BoundedOffloadPool ==
    /\ [](/\ Busy <= pool
          /\ creating = 0 /\ (\E u \in Upd : pc[u] = "running") => LoopFree)
    /\ [][\A u \in Upd :
             pc[u] = "to_thread" =>
                 /\ pc'[u] \in {"to_thread", "running"}
                 /\ resp'[u] = resp[u] /\ errTries'[u] = errTries[u]
                 /\ pc'[u] = "running" => Busy < pool]_vars
    /\ \A u \in Upd : <>[](pc[u] = "to_thread") => <>[](Busy = pool)

\* a call waits in the queue of the executor while every worker runs a call
C18_Witness ==
    \E u, v \in Upd :
        /\ pc[u] = "running" /\ pc[v] = "to_thread" /\ Busy = pool
        /\ resp[v] = 0

\* --------------------------------------------------------------- C12
\* C12: no chunk that textwrap.wrap returns is longer than the width, a
\* word longer than the width included.
C12_SegmentBound ==
    wstate = "wrapped" => \A i \in DOMAIN wrapped : Len(wrapped[i]) <= Width

\* a text with a word longer than the width was cut into several chunks
C12_Witness ==
    /\ wstate = "wrapped"
    /\ \E i \in DOMAIN final_answer :
          /\ i + Width <= Len(final_answer)
          /\ \A k \in i..(i + Width) : ~IsSpace(final_answer[k])
    /\ Len(wrapped) >= 2

\* --------------------------------------------------------------- C13
\* C13: textwrap.wrap returns at least one chunk for every text, and
\* exactly one for a text not longer than the width, the empty and the
\* whitespace-only text included.
C13_NonEmptyOutput ==
    wstate = "wrapped" =>
        /\ Len(wrapped) >= 1
        /\ Len(final_answer) <= Width => Len(wrapped) = 1

\* --------------------------------------------------------------- C14
\* the text from position i on is the chunks from the k-th on, in order,
\* with nothing but whitespace between one chunk and the next
RECURSIVE Rejoins(_, _, _, _)
Rejoins(t, i, segs, k) ==
    IF k > Len(segs) THEN i = Len(t) + 1
    ELSE LET e == i + Len(segs[k])
         IN  /\ e <= Len(t) + 1
             /\ SubSeq(t, i, e - 1) = segs[k]
             /\ IF k = Len(segs) THEN e = Len(t) + 1
                ELSE \E n \in 0..(Len(t) + 1 - e) :
                        /\ \A j \in e..(e + n - 1) : IsSpace(t[j])
                        /\ Rejoins(t, e + n, segs, k + 1)

\* C14: the chunks, joined in order with the whitespace dropped between
\* them put back, are the text: nothing else is lost, added or changed.
C14_ChunkRoundTrip ==
    wstate = "wrapped" => Rejoins(final_answer, 1, wrapped, 1)
====
